---- MODULE Spec2Model ----
\* kekupload-lib-ts (src/src/index.ts): ChunkedUploader, FileUploader,
\* FileUploaderQueued and ChunkedDownloader as state machines.
\*
\* Every await on a Transport request (XMLHttpRequest) or on a FileReader load is
\* a suspension point: the code between two suspension points runs to completion
\* and is one action.  User calls (add_job, cancel_job, cancel, pull, ...) are
\* actions that may happen at any suspension point.
EXTENDS Integers, Sequences, FiniteSets, TLC

\* ---------------------------------------------------------------- bounds
MaxJobs == 3        \* add_job calls in a run
MaxFileSize == 2    \* largest file.size of a job, in bytes
MaxReadSize == 2    \* largest read_size option
MaxChunkSize == 2   \* largest chunk_size option
MaxFail == 1        \* failed Transport upload requests per run
MaxOps == 4         \* direct ChunkedUploader calls in a run
MaxRetries == 2     \* failed Transport upload requests of a direct caller's run
MaxChunkLen == 1    \* largest chunk a direct caller hands to upload, in bytes
MaxLength == 3      \* largest artifact length served to the downloader
MaxPulls == 3       \* pull calls in a run
MaxSourceSize == 5  \* largest file.size of a file uploaded on its own
MaxSliceSize == 3   \* largest read_size for that file
MaxPieceSize == 3   \* largest chunk_size for that file

VARIABLES
  \* ChunkedUploader
  stream,       \* this.stream: 0 is undefined, n > 0 a server-issued handle
  hasher,       \* this.hasher: the bytes fed to it since its last reset
  \* FileUploader
  read_size, chunk_size,
  cancel_cb,    \* this.cancel_cb: NoCb is undefined, else the promise it resolves
  uploading,    \* this.uploading
  \* FileUploaderQueued
  jobs,         \* this.jobs: id -> job record
  queue,        \* this.queue
  queue_index,  \* this.queue_index
  running,      \* this.running
  active,       \* this.active
  \* the one execution of work() that got past the guard
  pc,           \* where it is suspended
  job,          \* its local `job` (with the id it was stored under)
  i, f,         \* upload_file's loop variables
  chunk,        \* the local `chunk` of the upload call in flight
  \* the environment and what it has observed
  last_call,    \* the latest cancel_job call and how it went
  removed,      \* the ids cancel_job has removed from the queue
  settled,      \* the latest promise cancel_cb() was called on, and by which job
  handles,      \* stream handles the server has issued so far
  fails,        \* failed Transport upload requests so far
  log,          \* the jobs made active and the callbacks invoked, in order
  trace,        \* the Transport requests, their answers and the on_progress
                \* calls since the last begin, in order
  \* a direct user of ChunkedUploader
  upc,          \* the call it is suspended in ("none" between calls)
  ops,          \* calls made so far
  mark,         \* what its latest upload call found when it was made
  \* ChunkedDownloader
  dl_id, dl_length, dl_offset,
  dl_begin,     \* the id of the begin call suspended in api.length (0: none)
  pulls,        \* pull calls suspended in download_chunk: a bag of sizes
  npulls,       \* pull calls made so far
  pulled        \* sum of the sizes of the pulls that returned

upvars == <<stream, hasher>>
fuvars == <<read_size, chunk_size, cancel_cb, uploading>>
qvars == <<jobs, queue, queue_index, running, active>>
wvars == <<pc, job, i, f, chunk>>
envvars == <<last_call, removed, settled, handles, fails, log, trace>>
directvars == <<upc, ops, mark>>
dlvars == <<dl_id, dl_length, dl_offset, dl_begin, pulls, npulls, pulled>>
vars == <<upvars, fuvars, qvars, wvars, envvars, directvars, dlvars>>

\* ---------------------------------------------------------------- helpers
Min(a, b) == IF a < b THEN a ELSE b

\* One entry of the trace.
Ev(ev, id, arg) == [ev |-> ev, job |-> id, arg |-> arg]

\* CryptoJS.SHA1(word_array).toString(): the digest is modelled as an injective
\* function of the bytes, so two digests agree exactly when the bytes agree.
SHA1(bytes) == <<"sha1", bytes>>

\* file.slice / result.slice: bytes [lo, hi) of a file; byte p of a file is p.
Slice(lo, hi) == [k \in 1..(hi - lo) |-> lo + k - 1]

\* A slice taken to be read_size bytes long even at the end of the file.
SliceLenUnclamped(size, ii) == read_size

\* The length of the slice FileReader delivers for outer offset ii.
SliceLen(size, ii) == Min(ii + read_size, size) - ii

NoJob == [id |-> -1, size |-> 0]

\* What an upload call finds when it is made: the hasher, the requests sent,
\* the failed requests and the settled calls so far.
Mark == [hasher |-> hasher, at |-> Len(trace), fails |-> fails, log |-> Len(log)]

\* ------------------------------------------------- ChunkedUploader (88-203)
\* A Transport request as the trace records it.
Req(op, id, st, hash, body) == Ev(op, id, [stream |-> st, hash |-> hash, body |-> body])

\* A begin that leaves the hasher as the previous stream left it.
BeginHasherKept == hasher

\* begin, up to its await: hasher.reset() and api.create(ext, name).
BeginHasher == <<>>
BeginReq(id) == Req("create", id, 0, <<>>, <<>>)

\* An update that puts the chunk in front of what the hasher was given before.
UploadHasherInFront(h, c) == c \o h

\* upload, up to its first await.  A missing stream rejects the promise but the
\* executor runs on: the hasher is updated and the request is sent all the same.
UploadHasher(h, c) == h \o c
UploadReq(id, c) == Req("upload", id, stream, SHA1(c), c)
UploadEvents(id, c) == <<UploadReq(id, c)>>

\* A mutant of RetryHasher: the hasher updated inside the retry loop.
RetryHasherAgain(h, c) == h \o c

\* The catch {} of upload's retry loop: the same request again, nothing else.
RetryHasher(h, c) == h
RetryEvents(id, c) == <<UploadReq(id, c)>>

\* A finish request addressed to the handle the stream field held before the
\* answer of the job's own begin.
FinishReqStale(id, st) == Req("finish", id, stream, SHA1(hasher), <<>>)

\* finish, up to its await: hasher.finalize() pads the hasher's data (the -1),
\* then api.finish(stream, hash).
FinalizeHasher(h) == Append(h, -1)
FinishReq(id, st) == Req("finish", id, st, SHA1(hasher), <<>>)

\* destroy, up to its await: api.remove(stream).
DestroyReq(id) == Req("remove", id, stream, <<>>, <<>>)

\* ---------------------------------------------------- FileUploader (210-328)
\* cancel(), lines 321-327: the promise it returns, which is what cancel_cb
\* resolves.  Without uploading the promise is rejected, but the executor runs
\* on and stores its resolve in cancel_cb all the same.  id, live, at and where
\* record the call: for which job it was made, whether that job was live, and
\* where work() and the trace were.
CancelState == IF uploading THEN "pending" ELSE "rejected"
cancel(id, live, where, at) ==
  [job |-> id, state |-> CancelState, live |-> live, pc |-> where, at |-> at]

\* cancel_cb while it is undefined.
NoCb == [job |-> -1, state |-> "undefined", live |-> FALSE, pc |-> "", at |-> 0]

\* this.cancel_cb(): resolving a promise that is already settled does nothing.
Resolve(p) == IF p.state = "pending" THEN [p EXCEPT !.state = "resolved"] ELSE p

\* finish() as work() calls it after upload_file (the stream is set there).
WorkFinish(tr, st) ==
  /\ hasher' = FinalizeHasher(hasher)
  /\ trace' = Append(tr, FinishReq(job.id, st))
  /\ pc' = "finish"
  /\ i' = 0 /\ f' = 0 /\ chunk' = <<>>

\* One pass of upload_file's inner loop body at offsets (ii, ff), lines 273-288:
\* on_progress, then either the cancellation branch up to `await destroy()` or
\* upload(chunk) up to its await.
ChunkStep(ii, ff, tr) ==
  LET tr1 == Append(tr, Ev("progress", job.id, <<ii + ff, job.size>>))
      c == Slice(ii + ff, ii + Min(ff + chunk_size, SliceLen(job.size, ii)))
  IN  /\ i' = ii /\ f' = ff
      /\ IF cancel_cb # NoCb
         THEN /\ trace' = Append(tr1, DestroyReq(job.id))
              /\ pc' = "destroy"
              /\ chunk' = <<>>
              /\ hasher' = hasher
         ELSE /\ trace' = tr1 \o UploadEvents(job.id, c)
              /\ pc' = "upload"
              /\ chunk' = c
              /\ hasher' = UploadHasher(hasher, c)

\* The outer loop of upload_file at offset ii, lines 263-298: read the next
\* slice, or clear the flag and return to work(), which calls finish().
OuterStep(ii, tr, st) ==
  IF ii < job.size
  THEN /\ pc' = "read" /\ i' = ii /\ f' = 0 /\ chunk' = <<>>
       /\ trace' = tr /\ hasher' = hasher
       /\ uploading' = TRUE
  ELSE /\ uploading' = FALSE
       /\ WorkFinish(tr, st)

\* ---------------------------------------------- FileUploaderQueued (342-450)
\* A mutant of Push: unshift instead of push.
PushFront(q, id) == <<id>> \o q

\* this.queue.push(id)
Push(q, id) == Append(q, id)

\* A mutant of Splice: always what splice(-1, 1) does.
SpliceLast(q, id) == SubSeq(q, 1, Len(q) - 1)

\* this.queue.splice(this.queue.indexOf(id), 1): indexOf is -1 for an id that is
\* not queued, and splice(-1, 1) then removes the last element.
Splice(q, id) ==
  IF \E k \in DOMAIN q : q[k] = id
  THEN LET n == CHOOSE k \in DOMAIN q : q[k] = id /\ \A m \in 1..(k - 1) : q[m] # id
       IN  SubSeq(q, 1, n - 1) \o SubSeq(q, n + 1, Len(q))
  ELSE SubSeq(q, 1, Len(q) - 1)

\* delete this.jobs[id]
Delete(jb, id) == [k \in DOMAIN jb \ {id} |-> jb[k]]

\* A mutant of Callbacks: finally inside the try block, so skipped on failure.
CallbacksFinallyInTry(id, ok, val) ==
  IF ok THEN <<Ev("then", id, val), Ev("finally", id, 0)>>
  ELSE <<Ev("catch", id, val)>>

\* The callbacks of a job that has ended, lines 439-444: then or catch, finally.
Callbacks(id, ok, val) ==
  <<Ev(IF ok THEN "then" ELSE "catch", id, val), Ev("finally", id, 0)>>

\* The head of work()'s while loop, lines 431-437 and 447, with queue q, jobs jb
\* and running r: take the next job up to the await in begin, or leave the loop.
WorkLoop(q, jb, lg, r) ==
  IF Len(q) > 0
  THEN /\ active' = Head(q)
       /\ queue' = Tail(q)
       /\ job' = [id |-> Head(q), size |-> jb[Head(q)].size]
       /\ jobs' = Delete(jb, Head(q))
       /\ running' = r
       /\ hasher' = BeginHasher
       /\ log' = Append(lg, Ev("active", Head(q), 0))
       /\ trace' = <<BeginReq(Head(q))>>
       /\ pc' = "begin"
  ELSE /\ running' = 0
       /\ pc' = "idle"
       /\ queue' = q /\ jobs' = jb /\ log' = lg
       /\ UNCHANGED <<active, job, hasher, trace>>

\* The job has ended with (ok, val): its callbacks, then the loop goes on.
EndJob(ok, val) ==
  /\ WorkLoop(queue, jobs, log \o Callbacks(job.id, ok, val), running)
  /\ i' = 0 /\ f' = 0 /\ chunk' = <<>>

\* An add_job whose work() call enters the loop whatever running is.
AddJobUnguarded(size) ==
  /\ queue_index < MaxJobs
  /\ queue_index' = queue_index + 1
  /\ LET id == queue_index
         jb == [k \in DOMAIN jobs \cup {id} |->
                  IF k = id THEN [size |-> size] ELSE jobs[k]]
     IN  /\ WorkLoop(Push(queue, id), jb, log, running + 1)
         /\ UNCHANGED <<i, f, chunk>>
  /\ UNCHANGED <<stream, fuvars, last_call, removed, settled, handles, fails, directvars, dlvars>>

\* add_job(job), lines 394-402, with work() up to its first await.
add_job(size) ==
  /\ queue_index < MaxJobs
  /\ queue_index' = queue_index + 1
  /\ LET id == queue_index
         jb == [k \in DOMAIN jobs \cup {id} |->
                  IF k = id THEN [size |-> size] ELSE jobs[k]]
         q == Push(queue, id)
     IN  IF running = 0
         THEN /\ WorkLoop(q, jb, log, running + 1)
              /\ UNCHANGED <<i, f, chunk>>
         ELSE /\ running' = running + 1
              /\ queue' = q /\ jobs' = jb
              /\ UNCHANGED <<active, pc, job, i, f, chunk, hasher, log, trace>>
  /\ UNCHANGED <<stream, fuvars, last_call, removed, settled, handles, fails, directvars, dlvars>>

\* Whether id is the job work() is processing, or a job still queued.
Live(id) == (pc # "idle" /\ job.id = id) \/ (\E k \in DOMAIN queue : queue[k] = id)

\* A cancel_job(id) call as last_call records it.
Call(id, outcome) == [job |-> id, outcome |-> outcome, live |-> Live(id)]

\* cancel_job(job_id), lines 416-425.
cancel_job(id) ==
  /\ IF active = id
     THEN /\ cancel_cb' = cancel(id, Live(id), pc, Len(trace))
          /\ last_call' = Call(id, CancelState)
          /\ UNCHANGED <<jobs, queue, removed>>
     ELSE IF id \notin DOMAIN jobs
     THEN /\ last_call' = Call(id, "Job not found")
          /\ UNCHANGED <<jobs, queue, removed, cancel_cb>>
     ELSE /\ last_call' = Call(id, "removed")
          /\ jobs' = Delete(jobs, id)
          /\ queue' = Splice(queue, id)
          /\ removed' = removed \cup {id}
          /\ UNCHANGED cancel_cb
  /\ UNCHANGED <<upvars, read_size, chunk_size, uploading, queue_index, running,
                 active, wvars, settled, handles, fails, log, trace, directvars,
                 dlvars>>

\* ------------------------------------- the suspension points of work() resume
\* api.create answers with a new stream (line 123); upload_file starts (261-263).
CreateOk ==
  /\ pc = "begin"
  /\ handles' = handles + 1
  /\ stream' = handles + 1
  /\ OuterStep(0, Append(trace, Ev("ok", job.id, "create")), handles + 1)
  /\ UNCHANGED <<read_size, chunk_size, cancel_cb, qvars, job, last_call, removed, settled, fails,
                 log, directvars, dlvars>>

\* api.create fails: begin throws into work()'s catch (line 440).
CreateFail ==
  /\ pc = "begin"
  /\ EndJob(FALSE, "remote-error")
  /\ UNCHANGED <<stream, fuvars, queue_index, last_call, removed, settled, handles, fails,
                 directvars, dlvars>>

\* reader.onload (line 269): the inner loop starts at f = 0.
ReadLoaded ==
  /\ pc = "read"
  /\ ChunkStep(i, 0, trace)
  /\ UNCHANGED <<stream, fuvars, qvars, job, last_call, removed, settled, handles, fails,
                 log, directvars, dlvars>>

\* api.upload succeeds (line 157): upload resolves, the loops go on (272, 263).
UploadOk ==
  /\ pc = "upload"
  /\ LET tr == Append(trace, Ev("ok", job.id, "upload"))
     IN  IF f + chunk_size < SliceLen(job.size, i)
         THEN /\ ChunkStep(i, f + chunk_size, tr)
              /\ uploading' = uploading
         ELSE OuterStep(i + read_size, tr, stream)
  /\ UNCHANGED <<stream, read_size, chunk_size, cancel_cb, qvars, job, last_call,
                 removed, settled, handles, fails, log, directvars, dlvars>>

\* api.upload fails (line 159): the loop of upload sends the chunk again.
UploadFail ==
  /\ pc = "upload"
  /\ fails < MaxFail
  /\ fails' = fails + 1
  /\ hasher' = RetryHasher(hasher, chunk)
  /\ trace' = trace \o RetryEvents(job.id, chunk)
  /\ UNCHANGED <<stream, fuvars, qvars, wvars, last_call, removed, settled, handles, log, directvars, dlvars>>

\* api.remove succeeds (line 276): reject("CANCELLED"), cancel_cb(), and
\* upload_file throws into work()'s catch.
RemoveOk ==
  /\ pc = "destroy"
  /\ settled' = [promise |-> Resolve(cancel_cb), by |-> job.id]
  /\ cancel_cb' = NoCb
  /\ EndJob(FALSE, "CANCELLED")
  /\ UNCHANGED <<stream, read_size, chunk_size, uploading, queue_index, last_call,
                 removed, handles, fails, directvars, dlvars>>

\* api.remove fails: `.catch()` without a handler passes the rejection on, so the
\* await on line 276 throws inside the async onload handler.  Nothing settles
\* the promise upload_file awaits (line 264): work() never resumes.
RemoveFail ==
  /\ pc = "destroy"
  /\ pc' = "hung"
  /\ trace' = Append(trace, Ev("fail", job.id, "remove"))
  /\ UNCHANGED <<upvars, fuvars, qvars, job, i, f, chunk, last_call, removed, settled, handles, fails,
                 log, directvars, dlvars>>

\* api.finish succeeds (line 182): job.then({id, hash}), job.finally().
FinishOk ==
  /\ pc = "finish"
  /\ EndJob(TRUE, trace[Len(trace)].arg.hash)
  /\ UNCHANGED <<stream, fuvars, queue_index, last_call, removed, settled, handles, fails,
                 directvars, dlvars>>

\* api.finish fails: finish throws into work()'s catch.
FinishFail ==
  /\ pc = "finish"
  /\ EndJob(FALSE, "remote-error")
  /\ UNCHANGED <<stream, fuvars, queue_index, last_call, removed, settled, handles, fails,
                 directvars, dlvars>>

\* ------------------------------------------------------ the Transfer Queue
\* new ChunkedUploader(options), lines 105-108, with nothing sent yet.
UploaderInit ==
  /\ stream = 0 /\ hasher = <<>> /\ chunk = <<>>
  /\ handles = 0 /\ fails = 0 /\ log = <<>> /\ trace = <<>>

\* The fields of FileUploader and FileUploaderQueued, lines 214 and 343-348.
QueueInit ==
  /\ cancel_cb = NoCb /\ uploading = FALSE
  /\ jobs = <<>> /\ queue = <<>> /\ queue_index = 0
  /\ running = 0 /\ active = -1
  /\ pc = "idle" /\ job = NoJob /\ i = 0 /\ f = 0
  /\ last_call = [job |-> -1, outcome |-> "", live |-> FALSE]
  /\ removed = {} /\ settled = [promise |-> NoCb, by |-> -1]

\* new ChunkedDownloader(options), lines 458-460.
DownloaderInit ==
  /\ dl_id = 0 /\ dl_length = -1 /\ dl_offset = 0 /\ dl_begin = 0
  /\ pulls = <<>> /\ npulls = 0 /\ pulled = 0

\* new FileUploaderQueued(options) with its read_size and chunk_size (232-234).
Init ==
  /\ UploaderInit /\ QueueInit /\ DownloaderInit
  /\ read_size \in 1..MaxReadSize /\ chunk_size \in 1..MaxChunkSize
  /\ upc = "off" /\ ops = 0 /\ mark = Mark

AddJob == \E size \in 0..MaxFileSize : add_job(size)

\* A caller may pass any id: every id add_job has returned, and one it has not.
CancelJob == \E id \in 0..queue_index : cancel_job(id)

Next ==
  \/ AddJob
  \/ CancelJob
  \/ CreateOk
  \/ CreateFail
  \/ ReadLoaded
  \/ UploadOk
  \/ UploadFail
  \/ RemoveOk
  \/ RemoveFail
  \/ FinishOk
  \/ FinishFail

Spec == Init /\ [][Next]_vars

\* ------------------------------------------- ChunkedUploader, used directly
\* The chunks a caller hands to upload: every byte sequence over {0, 1} of at
\* most MaxChunkLen bytes.
RECURSIVE Bytes(_)
Bytes(n) ==
  IF n = 0 THEN {<<>>}
  ELSE Bytes(n - 1) \cup {Append(b, x) : b \in Bytes(n - 1), x \in {0, 1}}

Chunks == Bytes(MaxChunkLen)

NotInitialized == "Stream not initialized"

\* begin(ext, name), lines 120-124, up to its await.
UBegin ==
  /\ upc = "none" /\ ops < MaxOps
  /\ ops' = ops + 1
  /\ hasher' = BeginHasher
  /\ trace' = <<BeginReq(-1)>>
  /\ upc' = "begin"
  /\ UNCHANGED <<stream, fuvars, qvars, wvars, last_call, removed, settled,
                 handles, fails, log, mark, dlvars>>

UBeginOk ==
  /\ upc = "begin"
  /\ handles' = handles + 1
  /\ stream' = handles + 1
  /\ trace' = Append(trace, Ev("ok", -1, "create"))
  /\ log' = Append(log, Ev("resolve", -1, "begin"))
  /\ upc' = "none"
  /\ UNCHANGED <<hasher, fuvars, qvars, wvars, last_call, removed, settled,
                 fails, ops, mark, dlvars>>

UBeginFail ==
  /\ upc = "begin"
  /\ log' = Append(log, Ev("reject", -1, "remote-error"))
  /\ upc' = "none"
  /\ UNCHANGED <<upvars, fuvars, qvars, wvars, last_call, removed, settled,
                 handles, fails, trace, ops, mark, dlvars>>

\* upload(chunk), lines 146-157, up to its await.
UUpload(c) ==
  /\ upc = "none" /\ ops < MaxOps
  /\ ops' = ops + 1
  /\ log' = IF stream = 0 THEN Append(log, Ev("reject", -1, NotInitialized))
            ELSE log
  /\ hasher' = UploadHasher(hasher, c)
  /\ trace' = trace \o UploadEvents(-1, c)
  /\ chunk' = c
  /\ mark' = Mark
  /\ upc' = "upload"
  /\ UNCHANGED <<stream, fuvars, qvars, pc, job, i, f, last_call, removed,
                 settled, handles, fails, dlvars>>

\* api.upload fails (line 159): the loop sends the chunk again.
UUploadFail ==
  /\ upc = "upload"
  /\ fails < MaxRetries
  /\ fails' = fails + 1
  /\ hasher' = RetryHasher(hasher, chunk)
  /\ trace' = trace \o RetryEvents(-1, chunk)
  /\ UNCHANGED <<stream, fuvars, qvars, wvars, last_call, removed, settled,
                 handles, log, directvars, dlvars>>

\* api.upload succeeds: resolve(hash) (line 162), which does nothing for a
\* promise line 148 has rejected.
UUploadOk ==
  /\ upc = "upload"
  /\ trace' = Append(trace, Ev("ok", -1, "upload"))
  /\ log' = IF stream = 0 THEN log
            ELSE Append(log, Ev("resolve", -1, SHA1(chunk)))
  /\ upc' = "none"
  /\ UNCHANGED <<upvars, fuvars, qvars, wvars, last_call, removed,
                 settled, handles, fails, ops, mark, dlvars>>

\* finish(), lines 177-182, up to its await.
UFinish ==
  /\ upc = "none" /\ ops < MaxOps
  /\ ops' = ops + 1
  /\ IF stream = 0
     THEN /\ log' = Append(log, Ev("reject", -1, NotInitialized))
          /\ UNCHANGED <<hasher, trace, upc>>
     ELSE /\ hasher' = FinalizeHasher(hasher)
          /\ trace' = Append(trace, FinishReq(-1, stream))
          /\ upc' = "finish"
          /\ log' = log
  /\ UNCHANGED <<stream, fuvars, qvars, wvars, last_call, removed, settled,
                 handles, fails, mark, dlvars>>

\* api.finish answers: finish returns {id, hash} (line 184) or throws.
UFinishOk ==
  /\ upc = "finish"
  /\ log' = Append(log, Ev("resolve", -1, trace[Len(trace)].arg.hash))
  /\ trace' = Append(trace, Ev("ok", -1, "finish"))
  /\ upc' = "none"
  /\ UNCHANGED <<upvars, fuvars, qvars, wvars, last_call, removed, settled,
                 handles, fails, ops, mark, dlvars>>

UFinishFail ==
  /\ upc = "finish"
  /\ log' = Append(log, Ev("reject", -1, "remote-error"))
  /\ upc' = "none"
  /\ UNCHANGED <<upvars, fuvars, qvars, wvars, last_call, removed, settled,
                 handles, fails, trace, ops, mark, dlvars>>

\* destroy(), lines 197-201, up to its await.
UDestroy ==
  /\ upc = "none" /\ ops < MaxOps
  /\ ops' = ops + 1
  /\ IF stream = 0
     THEN /\ log' = Append(log, Ev("reject", -1, NotInitialized))
          /\ UNCHANGED <<trace, upc>>
     ELSE /\ trace' = Append(trace, DestroyReq(-1))
          /\ upc' = "destroy"
          /\ log' = log
  /\ UNCHANGED <<upvars, fuvars, qvars, wvars, last_call, removed, settled,
                 handles, fails, mark, dlvars>>

UDestroyOk ==
  /\ upc = "destroy"
  /\ log' = Append(log, Ev("resolve", -1, "destroy"))
  /\ trace' = Append(trace, Ev("ok", -1, "remove"))
  /\ upc' = "none"
  /\ UNCHANGED <<upvars, fuvars, qvars, wvars, last_call, removed, settled,
                 handles, fails, ops, mark, dlvars>>

UDestroyFail ==
  /\ upc = "destroy"
  /\ log' = Append(log, Ev("reject", -1, "remote-error"))
  /\ upc' = "none"
  /\ UNCHANGED <<upvars, fuvars, qvars, wvars, last_call, removed, settled,
                 handles, fails, trace, ops, mark, dlvars>>

\* A ChunkedUploader alone: no queue, no downloader.
UploaderOnlyInit ==
  /\ UploaderInit /\ QueueInit /\ DownloaderInit
  /\ read_size = 0 /\ chunk_size = 0
  /\ upc = "none" /\ ops = 0 /\ mark = Mark

UUploadAny == \E c \in Chunks : UUpload(c)

UploaderNext ==
  \/ UBegin
  \/ UBeginOk
  \/ UBeginFail
  \/ UUploadAny
  \/ UUploadFail
  \/ UUploadOk
  \/ UFinish
  \/ UFinishOk
  \/ UFinishFail
  \/ UDestroy
  \/ UDestroyOk
  \/ UDestroyFail

UploaderSpec == UploaderOnlyInit /\ [][UploaderNext]_vars

\* ------------------------------------------- ChunkedDownloader (456-541)
\* remaining(), lines 513-515.
remaining == dl_length - dl_offset

\* The size pull asks the server for, lines 531-532.
Clamp(size) == IF size > remaining THEN remaining ELSE size

\* seq without its k-th element.
Without(seq, k) == SubSeq(seq, 1, k - 1) \o SubSeq(seq, k + 1, Len(seq))

\* begin(id), lines 488-490, up to its await (awaited before any other call).
DlBegin ==
  /\ dl_begin = 0 /\ pulls = <<>>
  /\ dl_offset' = 0
  /\ dl_begin' = 1
  /\ pulled' = 0
  /\ UNCHANGED <<dl_id, dl_length, pulls, npulls>>
  /\ UNCHANGED <<upvars, fuvars, qvars, wvars, envvars, directvars>>

\* api.length answers with the artifact's size: lines 490-491.
DlBeginOk(size) ==
  /\ dl_begin # 0
  /\ dl_length' = size
  /\ dl_id' = dl_begin
  /\ dl_begin' = 0
  /\ UNCHANGED <<dl_offset, pulls, npulls, pulled>>
  /\ UNCHANGED <<upvars, fuvars, qvars, wvars, envvars, directvars>>

\* api.length fails: begin throws, with offset already reset.
DlBeginFail ==
  /\ dl_begin # 0
  /\ dl_begin' = 0
  /\ UNCHANGED <<dl_id, dl_length, dl_offset, pulls, npulls, pulled>>
  /\ UNCHANGED <<upvars, fuvars, qvars, wvars, envvars, directvars>>

\* pull(size), lines 530-536, up to its await: a pull may be started while
\* earlier pulls are still waiting for their bytes.  A waiting pull is the
\* request it sent (offset, size) and the size its caller asked for.
DlPull(size) ==
  /\ dl_begin = 0 /\ npulls < MaxPulls
  /\ npulls' = npulls + 1
  /\ IF dl_id = 0
     THEN /\ log' = Append(log, Ev("reject", -1, "Id is undefined"))
          /\ pulls' = pulls
     ELSE /\ pulls' = Append(pulls, [offset |-> dl_offset, size |-> Clamp(size),
                                     asked |-> size])
          /\ log' = log
  /\ UNCHANGED <<dl_id, dl_length, dl_offset, dl_begin, pulled>>
  /\ UNCHANGED <<upvars, fuvars, qvars, wvars, last_call, removed, settled,
                 handles, fails, trace, directvars>>

\* api.download_chunk answers the k-th waiting pull: lines 538-540.
DlPullOk(k) ==
  /\ k \in DOMAIN pulls
  /\ dl_offset' = dl_offset + pulls[k].size
  /\ pulled' = pulled + pulls[k].size
  /\ pulls' = Without(pulls, k)
  /\ UNCHANGED <<dl_id, dl_length, dl_begin, npulls>>
  /\ UNCHANGED <<upvars, fuvars, qvars, wvars, envvars, directvars>>

\* api.download_chunk fails: pull throws before line 538.
DlPullFail(k) ==
  /\ k \in DOMAIN pulls
  /\ pulls' = Without(pulls, k)
  /\ UNCHANGED <<dl_id, dl_length, dl_offset, dl_begin, npulls, pulled>>
  /\ UNCHANGED <<upvars, fuvars, qvars, wvars, envvars, directvars>>

\* A ChunkedDownloader alone.
DownloaderOnlyInit ==
  /\ UploaderInit /\ QueueInit /\ DownloaderInit
  /\ read_size = 0 /\ chunk_size = 0
  /\ upc = "off" /\ ops = 0 /\ mark = Mark

DlLength == \E size \in 0..MaxLength : DlBeginOk(size)
DlPullAny == \E size \in 0..(MaxLength + 1) : DlPull(size)
DlAnswer == \E k \in 1..MaxPulls : DlPullOk(k)
DlError == \E k \in 1..MaxPulls : DlPullFail(k)

DownloaderNext ==
  \/ DlBegin
  \/ DlLength
  \/ DlBeginFail
  \/ DlPullAny
  \/ DlAnswer
  \/ DlError

DownloaderSpec == DownloaderOnlyInit /\ [][DownloaderNext]_vars

\* A specification with the scheduling the claims on progress assume: every
\* Transport request and every FileReader load is answered, and every chunk
\* upload succeeds in the end.
FairSpec ==
  /\ Spec
  /\ WF_vars(CreateOk \/ CreateFail)
  /\ WF_vars(ReadLoaded)
  /\ WF_vars(UploadOk)
  /\ WF_vars(RemoveOk \/ RemoveFail)
  /\ WF_vars(FinishOk \/ FinishFail)

\* ------------------------------------------------------------ reading the log
\* The positions of the log's events of kind ev for job id.
At(ev, id) == {k \in DOMAIN log : log[k].ev = ev /\ log[k].job = id}

\* The jobs of the log's events of kind ev, in the order of the log.
RECURSIVE Jobs(_, _)
Jobs(lg, ev) ==
  IF lg = <<>> THEN <<>>
  ELSE (IF Head(lg).ev = ev THEN <<Head(lg).job>> ELSE <<>>) \o Jobs(Tail(lg), ev)

Increasing(seq) == \A a, b \in DOMAIN seq : a < b => seq[a] < seq[b]

Ids == 0..(queue_index - 1)

Queued(id) == \E k \in DOMAIN queue : queue[k] = id

\* ------------------------------------------------------------------- claims
\* C1: jobs become active in the order of their add_job calls (ids are handed
\* out in call order), no job overtakes or skips an earlier one that is still
\* queued, completion callbacks come in that order and at most once each, and
\* once the queue has drained without a failure every submitted job that was
\* not removed has had its completion callback exactly once.
C1_FifoOrder ==
  /\ Increasing(Jobs(log, "active"))
  /\ Increasing(Jobs(log, "then"))
  /\ \A id \in Ids :
       /\ At("active", id) # {} =>
            \A e \in Ids : e < id => At("active", e) # {} \/ e \in removed
       /\ At("then", id) # {} => At("active", id) # {}
  /\ (pc = "idle" /\ \A k \in DOMAIN log : log[k].ev # "catch") =>
       \A id \in Ids \ removed : Cardinality(At("then", id)) = 1

\* Three jobs were submitted in one run of the worker loop, the first two have
\* completed in order and the third is active.
C1_Witness ==
  /\ running = 3
  /\ Jobs(log, "then") = <<0, 1>>
  /\ active = 2 /\ pc = "finish"

\* C2: the log is a sequence of blocks: a job becomes active, then exactly one
\* of its completion or error callback runs, then its finally callback, and
\* only then the next job becomes active; the job work() is processing has had
\* no callback yet, and a job work() has left has had its finally callback.
C2_OneOutcomeThenFinally ==
  /\ pc # "idle" => log # <<>> /\ log[Len(log)] = Ev("active", job.id, 0)
  /\ pc = "idle" => log = <<>> \/ log[Len(log)].ev = "finally"
  /\ \A k \in DOMAIN log :
       /\ log[k].ev = "active" => k = 1 \/ log[k - 1].ev = "finally"
       /\ log[k].ev \in {"then", "catch"} =>
            k > 1 /\ log[k - 1] = Ev("active", log[k].job, 0)
       /\ log[k].ev = "finally" =>
            k > 1 /\ log[k - 1].ev \in {"then", "catch"}
                  /\ log[k - 1].job = log[k].job
  /\ \A id \in Ids :
       /\ Cardinality(At("active", id)) <= 1
       /\ Cardinality(At("then", id)) + Cardinality(At("catch", id)) <= 1
       /\ Cardinality(At("finally", id)) <= 1
       /\ (At("active", id) # {} /\ (pc = "idle" \/ job.id # id)) =>
            /\ Cardinality(At("then", id)) + Cardinality(At("catch", id)) = 1
            /\ Cardinality(At("finally", id)) = 1

\* A cancelled job's error and finally callbacks ran before the next job became
\* active, and another job completed.
C2_Witness ==
  /\ \E k \in DOMAIN log :
       /\ log[k] = Ev("catch", log[k].job, "CANCELLED")
       /\ k + 2 \in DOMAIN log
       /\ log[k + 1].ev = "finally" /\ log[k + 2].ev = "active"
  /\ \E k \in DOMAIN log : log[k].ev = "then"

\* C3: once cancel_job has been called for the active job during its
\* upload_file, the transfer does not go past upload_file: after the chunk in
\* flight no chunk is started (every later on_progress is followed by the
\* remove request of destroy), the job does not reach finish and gets no
\* completion callback, and its marker is consumed by its own abort, which
\* hands "CANCELLED" to its error callback.  (A destroy that fails is left to
\* C14: work() hanging there is not counted against this claim.)
C3_CancelActiveAborts ==
  /\ (cancel_cb # NoCb /\ cancel_cb.live /\ cancel_cb.pc \in {"read", "upload"}) =>
       /\ job.id = cancel_cb.job
       /\ pc \in {"read", "upload", "destroy", "hung"}
       /\ At("then", cancel_cb.job) = {}
       /\ \A k \in DOMAIN trace :
            (k > cancel_cb.at /\ trace[k].ev = "progress") =>
               k + 1 \in DOMAIN trace /\ trace[k + 1].ev = "remove"
  /\ (settled.promise # NoCb /\ settled.promise.live
        /\ settled.promise.pc \in {"read", "upload"}) =>
       /\ settled.by = settled.promise.job
       /\ \E k \in At("catch", settled.by) : log[k].arg = "CANCELLED"

\* C4: a job cancel_job removed while it was queued is in neither the job map
\* nor the queue, never becomes active, has no callback invoked and no
\* Transport request or on_progress call made for it; the queue keeps the
\* submission order of the jobs left in it, all of them behind every job that
\* has become active.
C4_RemovedQueuedJobIsSilent ==
  /\ \A id \in removed :
       /\ id \notin DOMAIN jobs
       /\ ~Queued(id)
       /\ \A k \in DOMAIN log : log[k].job # id
       /\ \A k \in DOMAIN trace : trace[k].job # id
       /\ job.id # id
  /\ last_call.outcome = "removed" => last_call.live /\ last_call.job \in removed
  /\ Increasing(queue)
  /\ Increasing(Jobs(log, "active") \o queue)
  /\ DOMAIN jobs = {queue[k] : k \in DOMAIN queue}

\* The middle one of three jobs was removed while queued, and the job behind it
\* has been made active.
C4_Witness ==
  /\ removed = {1}
  /\ Jobs(log, "active") = <<0, 2>>

\* C5: every job that is queued is later removed by cancel_job or has its
\* finally callback invoked.
C5_EveryJobEnds ==
  \A id \in 0..(MaxJobs - 1) :
    [](Queued(id) => <>(id \in removed \/ At("finally", id) # {}))

\* C6: while work() is not running the active-job marker is the sentinel -1, and
\* a cancel_job call for an id that is neither being processed nor queued
\* fails with "Job not found".
C6_JobNotFound ==
  /\ pc = "idle" => active = -1
  /\ (last_call.outcome # "" /\ ~last_call.live) =>
       last_call.outcome = "Job not found"

\* C7: a cancel() call that fails with "not uploading" records no marker: the
\* promise cancel_cb resolves, and the promise an abort of upload_file has
\* resolved, is never one that cancel() rejected.
C7_FailedCancelLeavesNoMarker ==
  /\ cancel_cb.state # "rejected"
  /\ settled.promise.state # "rejected"

\* --------------------------------------------- claims on ChunkedUploader
\* The Transport requests of kind op in the trace.
Sent(op) == {k \in DOMAIN trace : trace[k].ev = op}

\* C8: while no begin has succeeded (stream is undefined), no upload, finish or
\* remove request has been sent and none is in flight, the hasher has been
\* given nothing, and every call has failed: upload, finish and destroy with
\* the not-initialized condition.
C8_NotInitialized ==
  stream = 0 =>
    /\ Sent("upload") \cup Sent("finish") \cup Sent("remove") = {}
    /\ upc \in {"none", "begin"}
    /\ hasher = <<>>
    /\ \A k \in DOMAIN log :
         log[k] \in {Ev("reject", -1, NotInitialized), Ev("reject", -1, "remote-error")}

\* The latest upload call of a direct caller with a stream, in flight or done.
UploadInFlight == upc = "upload" /\ stream # 0
UploadDone ==
  /\ upc = "none" /\ stream # 0
  /\ trace # <<>> /\ trace[Len(trace)] = Ev("ok", -1, "upload")

\* C9: an upload call on an initialized uploader that has seen k failed
\* requests has sent exactly k + 1 requests, all for the same stream, hash and
\* bytes, and has updated the hasher with the chunk exactly once; while it is
\* in flight it has settled nothing, and when the request succeeds it has
\* resolved once with the chunk's hash, having surfaced no failure.
C9_RetryUntilSuccess ==
  LET k == fails - mark.fails
      reqs == [n \in 1..(k + 1) |-> Req("upload", -1, stream, SHA1(chunk), chunk)]
  IN  /\ UploadInFlight =>
            /\ SubSeq(trace, mark.at + 1, Len(trace)) = reqs
            /\ hasher = mark.hasher \o chunk
            /\ Len(log) = mark.log
      /\ UploadDone =>
            /\ SubSeq(trace, mark.at + 1, Len(trace)) =
                 Append(reqs, Ev("ok", -1, "upload"))
            /\ hasher = mark.hasher \o chunk
            /\ Len(log) = mark.log + 1
            /\ log[Len(log)] = Ev("resolve", -1, SHA1(chunk))

\* An upload of a non-empty chunk has resolved after two failed requests.
C9_Witness ==
  /\ UploadDone
  /\ fails - mark.fails = 2
  /\ Len(chunk) = 1
  /\ Cardinality(Sent("upload")) = 3

\* --------------------------------------------- claims on ChunkedDownloader
\* C10: after a successful begin the offset never exceeds the length,
\* remaining() is never negative, and it is 0 exactly when the pulls that have
\* returned sum to the length.
C10_RemainingNeverNegative ==
  (dl_id # 0 /\ dl_begin = 0) =>
    /\ dl_offset <= dl_length
    /\ remaining >= 0
    /\ remaining = 0 <=> pulled = dl_length

\* C11: a pull that asks for more than remaining() requests exactly the bytes
\* from the offset to the end of the artifact, a range that is not empty-handed
\* past the end (0 <= size, offset + size = length); when it returns, remaining()
\* is 0; and a pull made while remaining() is 0 requests 0 bytes at the offset
\* and rejects nothing.
C11_PullPastEnd ==
  [][/\ \A k \in DOMAIN pulls :
          pulls[k].asked > dl_length - pulls[k].offset =>
            /\ pulls[k].size = dl_length - pulls[k].offset
            /\ pulls[k].size >= 0
            /\ DlPullOk(k) => remaining' = 0
     /\ \A size \in 0..(MaxLength + 1) :
          (dl_id # 0 /\ remaining = 0 /\ DlPull(size)) =>
            /\ pulls' = Append(pulls, [offset |-> dl_offset, size |-> 0,
                                       asked |-> size])
            /\ log' = log]_vars

\* --------------------------------------------- the digest of a stream
\* The bytes of the upload calls that have returned in a trace, in call order:
\* an upload call returns when a request for its chunk has succeeded.
RECURSIVE Uploaded(_)
Uploaded(tr) ==
  IF Len(tr) < 2 THEN <<>>
  ELSE Uploaded(SubSeq(tr, 1, Len(tr) - 1)) \o
         (IF tr[Len(tr)] = Ev("ok", tr[Len(tr)].job, "upload")
          THEN tr[Len(tr) - 1].arg.body ELSE <<>>)

\* The first finish since the latest begin call has sent its request.
FinishSent ==
  /\ upc \in {"finish", "none"}
  /\ trace # <<>> /\ trace[1] = BeginReq(-1)
  /\ Cardinality(Sent("finish")) = 1

\* That finish has returned.
FinishReturned ==
  /\ FinishSent /\ upc = "none"
  /\ trace[Len(trace)] = Ev("ok", -1, "finish")

\* C12: the hash of the first finish request after a begin call is the digest
\* of the chunks the upload calls since that begin have uploaded, concatenated
\* in call order, nothing given to the hasher before that begin included; and
\* it is the hash finish returns.
C12_FinishHashIsDigestOfChunks ==
  /\ FinishSent =>
       \A k \in Sent("finish") :
         /\ trace[k].arg.hash = SHA1(Uploaded(SubSeq(trace, 1, k)))
         /\ trace[k].arg.body = <<>>
  /\ FinishReturned =>
       log[Len(log)] = Ev("resolve", -1, SHA1(Uploaded(trace)))

\* A first stream was given the chunk <<1>>; a second begin followed, and the
\* finish of the second stream, to which nothing was uploaded, has returned the
\* digest of no bytes (four calls, all resolved).
C12_Witness ==
  /\ FinishReturned
  /\ handles = 2 /\ stream = 2
  /\ Len(log) = 4 /\ \A k \in DOMAIN log : log[k].ev = "resolve"
  /\ chunk = <<1>> /\ Uploaded(trace) = <<>>
  /\ log[Len(log)] = Ev("resolve", -1, SHA1(<<>>))

\* --------------------------------------------- one file through upload_file
\* A queue that is given a single file, with larger sizes than the queue of
\* several jobs affords: read_size need not be a multiple of chunk_size, nor
\* file.size a multiple of either.
UploadFileInit ==
  /\ UploaderInit /\ QueueInit /\ DownloaderInit
  /\ read_size \in 1..MaxSliceSize /\ chunk_size \in 1..MaxPieceSize
  /\ upc = "off" /\ ops = 0 /\ mark = Mark

AddFile == queue_index = 0 /\ \E size \in 0..MaxSourceSize : add_job(size)

UploadFileNext ==
  \/ AddFile
  \/ CancelJob
  \/ CreateOk
  \/ CreateFail
  \/ ReadLoaded
  \/ UploadOk
  \/ UploadFail
  \/ RemoveOk
  \/ RemoveFail
  \/ FinishOk
  \/ FinishFail

UploadFileSpec == UploadFileInit /\ [][UploadFileNext]_vars

\* The on_progress calls in the trace.
Progress == {k \in DOMAIN trace : trace[k].ev = "progress"}

\* C13: every on_progress call has the value (i + f) / S of a slice start i (a
\* multiple of read_size) and a piece start f (a multiple of chunk_size), which
\* is in [0, 1) and larger than every earlier one, and is followed at once by
\* the upload request of the piece [f, min(f + chunk_size, slice length)) of the
\* slice [i, min(i + read_size, S)) (or, on a cancellation, by the remove
\* request); every upload request carries between 1 and chunk_size bytes and
\* comes right after its on_progress call or repeats the request before it;
\* and when upload_file has returned, the uploaded chunks concatenated in upload
\* order are the source.
C13_ChunksTileTheSource ==
  /\ \A k \in Progress :
       LET n == trace[k].arg[1]
           ii == (n \div read_size) * read_size
           ff == n - ii
           len == Min(ii + read_size, job.size) - ii
       IN  /\ trace[k].arg[2] = job.size
           /\ 0 <= n /\ n < job.size
           /\ ff % chunk_size = 0
           /\ \A j \in Progress : j < k => trace[j].arg[1] < n
           /\ k + 1 \in DOMAIN trace
           /\ \/ trace[k + 1].ev = "remove"
              \/ /\ trace[k + 1].ev = "upload"
                 /\ trace[k + 1].arg.body =
                      Slice(ii + ff, ii + Min(ff + chunk_size, len))
  /\ \A k \in Sent("upload") :
       /\ Len(trace[k].arg.body) \in 1..chunk_size
       /\ k > 1
       /\ \/ trace[k - 1].ev = "progress"
          \/ trace[k - 1].ev = "upload" /\ trace[k - 1] = trace[k]
  /\ pc = "finish" => Uploaded(trace) = Slice(0, job.size)

\* A file of 5 bytes has gone through upload_file with read_size 3 and
\* chunk_size 2, as the chunks [0,2), [2,3) and [3,5), one of them sent twice.
C13_Witness ==
  /\ pc = "finish" /\ job.size = 5 /\ read_size = 3 /\ chunk_size = 2
  /\ Cardinality(Progress) = 3
  /\ Cardinality(Sent("upload")) = 4
  /\ Uploaded(trace) = <<0, 1, 2, 3, 4>>

\* --------------------------------------------- claims on cancellation
\* The remove request of the active job's destroy() has failed.
DestroyFailed == \E k \in DOMAIN trace : trace[k].ev = "fail" /\ trace[k].job = job.id

\* C14: once the remove request of the destroy() that upload_file calls on a
\* pending cancellation (the marker of a cancel() call that did not fail) has
\* failed, the job has had its error callback with "CANCELLED" and its finally
\* callback, the marker is cleared, and the promise of the cancel() call that
\* set it is resolved.
C14_FailedDestroyStillAborts ==
  (DestroyFailed /\ cancel_cb.state # "rejected") =>
    /\ \E k \in At("catch", job.id) : log[k].arg = "CANCELLED"
    /\ At("finally", job.id) # {}
    /\ cancel_cb = NoCb
    /\ settled.by = job.id /\ settled.promise.state = "resolved"

\* C15: a promise of a cancel() call made while upload_file was running (a
\* slice being read, a chunk or the remove request of destroy() in flight) is
\* resolved only by the abort of that same upload_file run: the job that
\* resolved it is the job the call was made for, and that job has had
\* "CANCELLED" as its error and no completion callback.
C15_ResolvedByItsOwnRun ==
  (settled.promise.state = "resolved"
     /\ settled.promise.pc \in {"read", "upload", "destroy"}) =>
    /\ settled.by = settled.promise.job
    /\ \E k \in At("catch", settled.by) : log[k].arg = "CANCELLED"
    /\ At("then", settled.by) = {}

\* The positions of work() at which an upload_file call is in progress.
InUploadFile == {"read", "upload", "destroy", "hung"}

\* C16: uploading is true exactly while an upload_file call is in progress
\* (aborts caused by the marker of a cancel() call that failed are left to C7),
\* and the promise of a cancel() call made while none is in progress is
\* rejected ("Not uploading").
C16_UploadingOnlyDuringUploadFile ==
  /\ settled.promise.state # "rejected" => (uploading <=> pc \in InUploadFile)
  /\ (cancel_cb # NoCb /\ cancel_cb.pc \notin InUploadFile) =>
       cancel_cb.state = "rejected"

\* --------------------------------------------- claims on the worker loop
\* The jobs that have become active and have not had their finally callback.
InProgress == {id \in Ids : At("active", id) # {} /\ At("finally", id) = {}}

\* C17: the loop of work() runs exactly while running is not 0, and the only
\* job between its begin and its finally callback is the one that loop is
\* processing: an add_job made while the loop runs counts in running and queues
\* its job, and makes no job active.  Every job is removed, queued, in progress
\* or ended, and the loop exits only when nothing is queued, so that every job
\* added while it ran, and not removed, has had its finally callback.
C17_OneWorkerLoop ==
  /\ running = 0 <=> pc = "idle"
  /\ running <= queue_index
  /\ InProgress = IF pc = "idle" THEN {} ELSE {job.id}
  /\ pc # "idle" => active = job.id /\ ~Queued(job.id) /\ job.id \notin DOMAIN jobs
  /\ \A id \in Ids :
       Cardinality({w \in {"removed", "queued", "active", "ended"} :
                      \/ w = "removed" /\ id \in removed
                      \/ w = "queued" /\ Queued(id)
                      \/ w = "active" /\ id \in InProgress
                      \/ w = "ended" /\ At("finally", id) # {}}) = 1
  /\ pc = "idle" =>
       /\ queue = <<>> /\ DOMAIN jobs = {}
       /\ \A id \in Ids \ removed : At("finally", id) # {}

\* Three add_job calls have been counted by one run of the loop (the second
\* and the third were made while it was active); it has ended the first two
\* jobs in turn and is uploading a chunk of the third.
C17_Witness ==
  /\ running = 3 /\ pc = "upload" /\ job.id = 2
  /\ Jobs(log, "finally") = <<0, 1>>
  /\ queue = <<>>

\* --------------------------------------------- claims on the order of chunks
\* The first upload request of every chunk in a trace, and the answers that
\* ended an upload call.
FirstRequests == {k \in Sent("upload") : k > 1 /\ trace[k - 1].ev # "upload"}
Succeeded == {k \in DOMAIN trace : trace[k].ev = "ok" /\ trace[k].arg = "upload"}

\* The bytes of the chunks handed to upload in a trace, in call order.
RECURSIVE Handed(_)
Handed(tr) ==
  IF Len(tr) < 2 THEN <<>>
  ELSE Handed(SubSeq(tr, 1, Len(tr) - 1)) \o
         (IF tr[Len(tr)].ev = "upload" /\ tr[Len(tr) - 1].ev # "upload"
          THEN tr[Len(tr)].arg.body ELSE <<>>)

\* C18: between the first requests of two chunks a request of the earlier chunk
\* has succeeded, and the later chunk starts in the source where the earlier one
\* ends; at most one chunk is in flight, and one is exactly while upload_file
\* waits for an upload; and while upload_file runs the hasher has been given the
\* chunks handed to upload, in that order, which is a prefix of the source.
C18_ChunksInOrderOneInFlight ==
  /\ \A j, k \in FirstRequests :
       j < k =>
         /\ \E m \in Succeeded : j < m /\ m < k
         /\ trace[j].arg.body[1] + Len(trace[j].arg.body) <= trace[k].arg.body[1]
  /\ \A m \in Succeeded : trace[m - 1].ev = "upload"
  /\ Cardinality(FirstRequests) - Cardinality(Succeeded) =
       IF pc = "upload" THEN 1 ELSE 0
  /\ pc \in InUploadFile =>
       /\ hasher = Handed(trace)
       /\ hasher = Slice(0, Len(hasher))

\* The second chunk of a file is in flight, after the first one was sent twice.
C18_Witness ==
  /\ pc = "upload" /\ chunk # <<>> /\ chunk[1] > 0
  /\ Cardinality(FirstRequests) = 2
  /\ Cardinality(Sent("upload")) = 3
  /\ trace[Len(trace)].ev = "upload" /\ trace[Len(trace)].arg.body = chunk

\* C19: the marker that upload_file observes (it has called destroy()) was set
\* by a cancel_job call for the job it is uploading, and a promise of cancel()
\* is resolved by the abort of the job it was made for.  (Markers of cancel()
\* calls that failed are left to C7: only calls that found uploading set count.)
C19_CancellationIsPerJob ==
  /\ (pc \in {"destroy", "hung"} /\ cancel_cb.state = "pending") =>
       cancel_cb.job = job.id
  /\ settled.promise.state = "resolved" => settled.by = settled.promise.job

\* --------------------------------------------- claims on stream handles
\* The requests of the trace that address a stream handle, and those that
\* close one.
Addressed == Sent("upload") \cup Sent("finish") \cup Sent("remove")
Closing == Sent("finish") \cup Sent("remove")

\* C20: every upload, finish and remove request of the active job comes after
\* the answer of that job's own begin and is addressed to the handle that
\* answer returned, the newest one, which no earlier job has had; at most one
\* finish or remove request is sent for it, and no request follows that one.
C20_HandleClosedOnceAndOwn ==
  /\ \A k \in DOMAIN trace : trace[k].job = job.id
  /\ Addressed # {} =>
       /\ handles >= 1 /\ stream = handles
       /\ trace[1] = BeginReq(job.id)
       /\ trace[2].ev = "ok" /\ trace[2].arg = "create"
  /\ \A k \in Addressed : k > 2 /\ trace[k].arg.stream = handles
  /\ Cardinality(Closing) <= 1
  /\ \A k \in Closing :
       \A m \in DOMAIN trace : m > k => trace[m].ev \in {"ok", "fail"}
  /\ \A k \in DOMAIN trace : trace[k].ev = "create" => k = 1

\* The second job of the queue has uploaded a chunk to its handle, the second
\* one, and has then, cancelled, sent the remove request for it.
C20_Witness ==
  /\ pc = "destroy" /\ job.id = 1 /\ handles = 2
  /\ Sent("upload") # {} /\ Succeeded # {}
  /\ Sent("remove") = {Len(trace)}
  /\ trace[Len(trace)].arg.stream = 2

====
